---- MODULE Spec2Model ----
(***************************************************************************)
(* State-machine model of the MCP client (mcp-client.ts): main, the        *)
(* connection loop, connectToServer, chatLoop, processQuery and cleanup,   *)
(* together with the string operations used to qualify and resolve tool    *)
(* names.  Names are sequences of one-character strings so that the        *)
(* template literal `${serverName}__${tool.name}` and String.split("__")   *)
(* are modelled by what they do to the characters.                         *)
(*                                                                         *)
(* Seven specifications share the variables:                                *)
(*   Spec      the run of main() from start to the end of cleanup          *)
(*   FairSpec  Spec with weak fairness of the program's steps              *)
(*   QuerySpec one round of chatLoop's while body, from the call of        *)
(*             processQuery to the next read, from any registry main can   *)
(*             build                                                       *)
(*   StartupSpec  main from its start to the catalog of the first query    *)
(*   DuplicateSpec  Spec for a config in which a server name is repeated   *)
(*   NameSpec  qualification and resolution of bounded names               *)
(*   HttpSpec  one POST to the HTTP MCP server (its JSON-RPC handler)      *)
(***************************************************************************)
EXTENDS Naturals, Sequences, FiniteSets

VARIABLES
    config,         \* the static server configuration (name, isOpen, usable target)
    openServers,    \* main: const openServers = MCPClient.getOpenServers()
    pc,             \* position of main(): main, connect, ask, query, finally, cleanup, done
    i,              \* index of the connection loop over openServers
    sessions,       \* MCPClient.sessions: keys in Map insertion order
    transports,     \* MCPClient.transports: keys in Map insertion order
    clientOf,       \* per name: the connectToServer call (its number) whose Client and
                    \* transport the two Maps hold under that name; 0: none
    opened,         \* transports whose channel was opened (client.connect started them)
    released,       \* transports released by the client library after a failed handshake
    closeCalls,     \* per transport: number of transport.close() calls made by cleanup
    attempts,       \* server names passed to connectToServer, in call order
    connected,      \* server names whose connectToServer call returned normally
    connectErrors,  \* server names logged by main's catch ("Failed to connect ...")
    pending,        \* error travelling through main's finally: none or its kind
    exitPath,       \* how the try block of main was left: none, sentinel, noServers, exception
    query,          \* chatLoop: const query, the trimmed line last read, or NoQuery
    queryRead,      \* a query line was read by chatLoop
    printed,        \* what chatLoop printed last: none, response, error
    rl,             \* the readline interface: none, open, closed
    held,           \* transports.values() as iterated by cleanup
    k,              \* position of cleanup in held
    cleanupCalls,   \* number of times cleanup() was invoked
    cleanupResult,  \* none, returned, threw
    mainResult,     \* the promise of main(): running, resolved, rejected
    qpc,            \* position of processQuery: idle, catalog, dispatch, calling, followup, returned, thrown
    messages,       \* processQuery: const messages (the conversation state)
    availableTools, \* processQuery: const availableTools (qualified names, in order)
    listed,         \* the tool lists the sessions returned, in the order asked
    toolCalls,      \* message.tool_calls of the first completion
    tc,             \* index of the tool call being dispatched
    finalText,      \* processQuery: const finalText
    invoked,        \* the session.callTool calls made, in order
    inFlight,       \* ids of the callTool requests sent and not yet settled
    modelCalls,     \* number of chat.completions.create calls
    thrownAt,       \* where processQuery threw: none, guard, listTools, model, parse, callTool, followup
    nextHasCalls,   \* the latest nextCompletion's message carries tool_calls
    sent,           \* the messages array as passed to the latest chat.completions.create
    np, nc, nq, nr, npc,  \* NameSpec: provider name, local name, qualified name, resolution, position
    body,           \* HTTP server: req.body of the POST being handled
    hpc,            \* position of the POST handler: idle, post, tool, rejected, responded, hung
    responses       \* the responses written for the request, in order

lifeVars == <<config, openServers, pc, i, sessions, transports, clientOf, opened, released,
              closeCalls, attempts, connected, connectErrors, pending, exitPath,
              query, queryRead, printed, rl, held, k, cleanupCalls, cleanupResult, mainResult>>

queryVars == <<qpc, messages, availableTools, listed, toolCalls, tc, finalText,
               invoked, inFlight, modelCalls, thrownAt, nextHasCalls, sent>>

nameVars == <<np, nc, nq, nr, npc>>

httpVars == <<body, hpc, responses>>

vars == <<lifeVars, queryVars, nameVars, httpVars>>

----------------------------------------------------------------------------
(* Sequences and strings *)

Range(s) == {s[x] : x \in DOMAIN s}

\* Array.prototype.filter over a sequence
RECURSIVE SelectNames(_)
SelectNames(cfgs) ==
    IF cfgs = <<>> THEN <<>>
    ELSE (IF Head(cfgs).isOpen THEN <<Head(cfgs).name>> ELSE <<>>)
         \o SelectNames(Tail(cfgs))

\* Map.prototype.set on the key order of a Map: a new key goes last, an
\* existing key keeps its place
MapSet(m, key) == IF key \in Range(m) THEN m ELSE Append(m, key)

\* the reserved separator of qualified names
Sep == <<"_", "_">>

\* String.prototype.indexOf("__", from), 1-based; 0 when absent
SepIndex(s, from) ==
    LET hits == {x \in from..(Len(s) - 1) : s[x] = "_" /\ s[x + 1] = "_"}
    IN  IF hits = {} THEN 0 ELSE CHOOSE x \in hits : \A y \in hits : x <= y

\* String.prototype.split("__"): left to right, non-overlapping
RECURSIVE Split(_)
Split(s) ==
    LET at == SepIndex(s, 1)
    IN  IF at = 0 THEN <<s>>
        ELSE <<SubSeq(s, 1, at - 1)>> \o Split(SubSeq(s, at + 2, Len(s)))

\* the value of a destructured array element that is not there
Undefined == <<"undefined">>

\* a qualification that joins with a single underscore
QualifySingleUnderscore(serverName, toolName) == serverName \o <<"_">> \o toolName

\* `${serverName}__${tool.name}`
Qualify(serverName, toolName) == serverName \o Sep \o toolName

\* const [serverName, toolName] = toolCall.function.name.split("__")
Resolve(name) ==
    LET parts == Split(name)
    IN  [serverName |-> parts[1],
         toolName   |-> IF Len(parts) >= 2 THEN parts[2] ELSE Undefined]

----------------------------------------------------------------------------
(* The configuration *)

\* the config array has three entries
NumProviders == 3

\* their names, in declared order.  The letters stand for any three distinct
\* names without "__"; the second is the first followed by one underscore,
\* which a configured name may well end with
ConfigNames == << <<"a">>, <<"a", "_">>, <<"b">> >>

\* every setting of the isOpen flags and of the usability of type/command/url
Configs ==
    {c \in [1..NumProviders -> [name : Range(ConfigNames), isOpen : BOOLEAN, valid : BOOLEAN]] :
        \A x \in 1..NumProviders : c[x].name = ConfigNames[x]}

\* config.find((cfg) => cfg.name === serverName): the first entry of that name
ServerConfig(serverName) ==
    config[CHOOSE x \in 1..NumProviders :
              /\ config[x].name = serverName
              /\ \A y \in 1..(x - 1) : config[y].name # serverName]

\* a getOpenServers without the filter on isOpen
getAllServers == [x \in 1..NumProviders |-> config[x].name]

\* config.filter(cfg => cfg.isOpen).map(cfg => cfg.name)
getOpenServers == SelectNames(config)

NoQuery == <<"none">>

----------------------------------------------------------------------------
(* The interactive surface: lines typed by the user *)

Quit == <<"q", "u", "i", "t">>

\* lines the user may type: the sentinel in three spellings, and a line that
\* needs trimming and only starts with the sentinel
Lines ==
    { <<"q", "u", "i", "t">>,
      <<"Q", "U", "I", "T">>,
      <<" ", "Q", "u", "i", "t", " ">>,
      <<" ", "q", "u", "i", "t", "s">> }

\* String.prototype.trim
RECURSIVE TrimStart(_)
TrimStart(s) == IF s # <<>> /\ Head(s) = " " THEN TrimStart(Tail(s)) ELSE s

RECURSIVE TrimEnd(_)
TrimEnd(s) ==
    IF s # <<>> /\ s[Len(s)] = " " THEN TrimEnd(SubSeq(s, 1, Len(s) - 1)) ELSE s

Trim(s) == TrimEnd(TrimStart(s))

\* String.prototype.toLowerCase
LowerChar(c) ==
    CASE c = "Q" -> "q"
      [] c = "U" -> "u"
      [] c = "I" -> "i"
      [] c = "T" -> "t"
      [] OTHER -> c

ToLowerCase(s) == [x \in DOMAIN s |-> LowerChar(s[x])]

\* a comparison with the sentinel that respects case
IsSentinelCaseSensitive(q) == q = Quit

\* query.toLowerCase() === "quit"
IsSentinel(q) == ToLowerCase(q) = Quit

----------------------------------------------------------------------------
(* Init: the state when main() is called *)

LifeStart ==
    /\ openServers = <<>>
    /\ pc = "main"
    /\ i = 1
    /\ sessions = <<>>
    /\ transports = <<>>
    /\ clientOf = [n \in Range(ConfigNames) |-> 0]
    /\ opened = {}
    /\ released = {}
    /\ closeCalls = [n \in Range(ConfigNames) |-> 0]
    /\ attempts = <<>>
    /\ connected = {}
    /\ connectErrors = {}
    /\ pending = "none"
    /\ exitPath = "none"
    /\ query = NoQuery
    /\ queryRead = FALSE
    /\ printed = "none"
    /\ rl = "none"
    /\ held = <<>>
    /\ k = 1
    /\ cleanupCalls = 0
    /\ cleanupResult = "none"
    /\ mainResult = "running"

NameIdle ==
    /\ np = <<>>
    /\ nc = <<>>
    /\ nq = <<>>
    /\ nr = <<>>
    /\ npc = "idle"

\* JavaScript values as they reach the HTTP server in a JSON body: the result
\* of typeof and the value
JsUndefined == [type |-> "undefined", val |-> "undefined"]

JsNull == [type |-> "object", val |-> "null"]

JsString(str) == [type |-> "string", val |-> str]

JsNumber(num) == [type |-> "number", val |-> num]

\* an object; of its properties only `name` is told apart
JsObject(name) == [type |-> "object", val |-> name]

HttpIdle ==
    /\ body = [method |-> JsUndefined, id |-> JsUndefined, params |-> JsUndefined]
    /\ hpc = "idle"
    /\ responses = <<>>

QueryIdle ==
    /\ qpc = "idle"
    /\ messages = <<>>
    /\ availableTools = <<>>
    /\ listed = <<>>
    /\ toolCalls = <<>>
    /\ tc = 1
    /\ finalText = <<>>
    /\ invoked = <<>>
    /\ inFlight = {}
    /\ modelCalls = 0
    /\ thrownAt = "none"
    /\ nextHasCalls = FALSE
    /\ sent = <<>>

Init ==
    /\ config \in Configs
    /\ LifeStart
    /\ QueryIdle
    /\ HttpIdle
    /\ NameIdle

----------------------------------------------------------------------------
(* main: connecting *)

hasActiveSessions == Len(sessions) > 0

\* const openServers = MCPClient.getOpenServers(); the try block is entered
MainStart ==
    /\ pc = "main"
    /\ openServers' = getOpenServers
    /\ i' = 1
    /\ pc' = "connect"
    /\ UNCHANGED <<config, sessions, transports, clientOf, opened, released, closeCalls,
                   attempts, connected, connectErrors, pending, exitPath, query,
                   queryRead, printed, rl, held, k, cleanupCalls, cleanupResult,
                   mainResult>>
    /\ UNCHANGED <<queryVars, nameVars, httpVars>>

\* how one connectToServer call can end:
\*   invalid        the configuration's type/command/url selects no transport (throw)
\*   openfail       client.connect rejects before the channel is open
\*   handshakefail  client.connect rejects after the channel was opened
\*   listfail       client.connect succeeded, client.listTools rejects
\*   ok             the call returns
ConnectOutcomes == {"invalid", "openfail", "handshakefail", "listfail", "ok"}

\* connectToServer(serverName) ending with `outcome`.  A transport reaches the
\* two Maps only after client.connect returned; when the handshake inside
\* client.connect fails, the client library closes the channel it had opened
\* before it rethrows, and connectToServer drops the transport
connectToServer(serverName, outcome) ==
    /\ (outcome = "invalid") <=> ~ServerConfig(serverName).valid
    /\ opened' = IF outcome \in {"handshakefail", "listfail", "ok"}
                 THEN opened \cup {serverName} ELSE opened
    /\ released' = IF outcome = "handshakefail"
                   THEN released \cup {serverName} ELSE released
    /\ sessions' = IF outcome \in {"listfail", "ok"}
                   THEN MapSet(sessions, serverName) ELSE sessions
    /\ transports' = IF outcome \in {"listfail", "ok"}
                     THEN MapSet(transports, serverName) ELSE transports
    /\ clientOf' = IF outcome \in {"listfail", "ok"}
                   THEN [clientOf EXCEPT ![serverName] = Len(attempts) + 1]
                   ELSE clientOf
    /\ connected' = IF outcome = "ok" THEN connected \cup {serverName} ELSE connected

\* the try block of main is left with `err` pending (none: normal completion)
LeaveTry(err, path) ==
    /\ pc' = "finally"
    /\ pending' = err
    /\ exitPath' = path
    /\ UNCHANGED <<held, k, cleanupCalls>>

\* a catch block that lets the connection error leave the loop
CatchConnectErrorRethrow(serverName) ==
    /\ connectErrors' = connectErrors \cup {serverName}
    /\ i' = i
    /\ pc' = "finally"
    /\ pending' = "connect"
    /\ exitPath' = "exception"
    /\ UNCHANGED <<held, k, cleanupCalls>>

\* catch (error) { console.error(`Failed to connect to server ...`) }: the
\* loop goes on with the next server
CatchConnectError(serverName) ==
    /\ connectErrors' = connectErrors \cup {serverName}
    /\ i' = i + 1
    /\ UNCHANGED <<pc, pending, exitPath, held, k, cleanupCalls>>

\* one iteration of the connection loop whose connectToServer call throws
ConnectFails ==
    /\ pc = "connect"
    /\ i <= Len(openServers)
    /\ \E outcome \in ConnectOutcomes \ {"ok"} :
          connectToServer(openServers[i], outcome)
    /\ attempts' = Append(attempts, openServers[i])
    /\ CatchConnectError(openServers[i])
    /\ UNCHANGED <<config, openServers, closeCalls, query, queryRead, printed, rl,
                   cleanupResult, mainResult>>
    /\ UNCHANGED <<queryVars, nameVars, httpVars>>

\* one iteration of the connection loop whose connectToServer call returns
ConnectSucceeds ==
    /\ pc = "connect"
    /\ i <= Len(openServers)
    /\ connectToServer(openServers[i], "ok")
    /\ attempts' = Append(attempts, openServers[i])
    /\ i' = i + 1
    /\ UNCHANGED <<config, openServers, pc, closeCalls, connectErrors, pending,
                   exitPath, query, queryRead, printed, rl, held, k, cleanupCalls,
                   cleanupResult, mainResult>>
    /\ UNCHANGED <<queryVars, nameVars, httpVars>>

\* if (!client.hasActiveSessions()) throw new Error("Failed to connect to any server")
NoActiveSessions ==
    /\ pc = "connect"
    /\ i > Len(openServers)
    /\ ~hasActiveSessions
    /\ LeaveTry("noServers", "noServers")
    /\ UNCHANGED <<config, openServers, i, sessions, transports, clientOf, opened, released,
                   closeCalls, attempts, connected, connectErrors, query, queryRead,
                   printed, rl, cleanupResult, mainResult>>
    /\ UNCHANGED <<queryVars, nameVars, httpVars>>

\* await client.chatLoop(): the readline interface is created
EnterChatLoop ==
    /\ pc = "connect"
    /\ i > Len(openServers)
    /\ hasActiveSessions
    /\ pc' = "ask"
    /\ rl' = "open"
    /\ UNCHANGED <<config, openServers, i, sessions, transports, clientOf, opened, released,
                   closeCalls, attempts, connected, connectErrors, pending, exitPath,
                   query, queryRead, printed, held, k, cleanupCalls, cleanupResult,
                   mainResult>>
    /\ UNCHANGED <<queryVars, nameVars, httpVars>>

----------------------------------------------------------------------------
(* chatLoop *)

\* a line is read that is not the sentinel: processQuery is called with it
ReadQuery ==
    /\ pc = "ask"
    /\ \E line \in Lines :
          /\ ~IsSentinel(Trim(line))
          /\ query' = Trim(line)
    /\ queryRead' = TRUE
    /\ pc' = "query"
    /\ UNCHANGED <<config, openServers, i, sessions, transports, clientOf, opened, released,
                   closeCalls, attempts, connected, connectErrors, pending, exitPath,
                   printed, rl, held, k, cleanupCalls, cleanupResult, mainResult>>
    /\ UNCHANGED <<queryVars, nameVars, httpVars>>

\* the sentinel is read: break, finally readline.close(), chatLoop returns
ReadSentinel ==
    /\ pc = "ask"
    /\ \E line \in Lines :
          /\ IsSentinel(Trim(line))
          /\ query' = Trim(line)
    /\ rl' = "closed"
    /\ LeaveTry("none", "sentinel")
    /\ UNCHANGED <<config, openServers, i, sessions, transports, clientOf, opened, released,
                   closeCalls, attempts, connected, connectErrors, queryRead,
                   printed, cleanupResult, mainResult>>
    /\ UNCHANGED <<queryVars, nameVars, httpVars>>

\* askQuestion rejects (readline.question throws once its input has closed):
\* the error leaves the while loop, finally readline.close(), chatLoop rejects
AskThrows ==
    /\ pc = "ask"
    /\ rl' = "closed"
    /\ LeaveTry("chatLoop", "exception")
    /\ UNCHANGED <<config, openServers, i, sessions, transports, clientOf, opened, released,
                   closeCalls, attempts, connected, connectErrors, query, queryRead,
                   printed, cleanupResult, mainResult>>
    /\ UNCHANGED <<queryVars, nameVars, httpVars>>

\* a while body without the inner try/catch: the error of processQuery leaves
\* the loop, finally readline.close(), chatLoop rejects
AfterQueryNoCatch(outcome) ==
    /\ query' = NoQuery
    /\ IF outcome = "returned"
       THEN /\ printed' = "response"
            /\ pc' = "ask"
            /\ UNCHANGED <<pending, exitPath, held, k, cleanupCalls, rl>>
       ELSE /\ rl' = "closed"
            /\ LeaveTry("chatLoop", "exception")
            /\ UNCHANGED printed

\* what chatLoop does with the end of processQuery(query): print the response,
\* or catch and print the error; then the loop reads again
AfterQuery(outcome) ==
    /\ printed' = IF outcome = "returned" THEN "response" ELSE "error"
    /\ query' = NoQuery
    /\ pc' = "ask"
    /\ UNCHANGED <<pending, exitPath, held, k, cleanupCalls, rl>>

\* processQuery(query) returns its text
ProcessQueryReturns ==
    /\ pc = "query"
    /\ hasActiveSessions
    /\ AfterQuery("returned")
    /\ UNCHANGED <<config, openServers, i, sessions, transports, clientOf, opened, released,
                   closeCalls, attempts, connected, connectErrors, queryRead,
                   cleanupResult, mainResult>>
    /\ UNCHANGED <<queryVars, nameVars, httpVars>>

\* processQuery(query) throws
ProcessQueryThrows ==
    /\ pc = "query"
    /\ AfterQuery("thrown")
    /\ UNCHANGED <<config, openServers, i, sessions, transports, clientOf, opened, released,
                   closeCalls, attempts, connected, connectErrors, queryRead,
                   cleanupResult, mainResult>>
    /\ UNCHANGED <<queryVars, nameVars, httpVars>>

----------------------------------------------------------------------------
(* cleanup *)

\* main without the finally block: the run ends without calling cleanup
MainNoFinally ==
    /\ pc = "finally"
    /\ mainResult' = IF pending = "none" THEN "resolved" ELSE "rejected"
    /\ pc' = "done"
    /\ UNCHANGED <<config, openServers, i, sessions, transports, clientOf, opened, released,
                   closeCalls, attempts, connected, connectErrors, pending, exitPath,
                   query, queryRead, printed, rl, held, k, cleanupCalls, cleanupResult>>
    /\ UNCHANGED <<queryVars, nameVars, httpVars>>

\* finally { await client.cleanup() }: cleanup is invoked and starts iterating
\* this.transports.values()
MainFinally ==
    /\ pc = "finally"
    /\ cleanupCalls' = cleanupCalls + 1
    /\ held' = transports
    /\ k' = 1
    /\ pc' = "cleanup"
    /\ UNCHANGED <<config, openServers, i, sessions, transports, clientOf, opened, released,
                   closeCalls, attempts, connected, connectErrors, pending, exitPath,
                   query, queryRead, printed, rl, cleanupResult, mainResult>>
    /\ UNCHANGED <<queryVars, nameVars, httpVars>>

\* what cleanup does when `await transport.close()` rejects: nothing catches
\* it, so cleanup rejects there and main rejects with that error
CloseRejected ==
    /\ cleanupResult' = "threw"
    /\ pending' = "close"
    /\ mainResult' = "rejected"
    /\ pc' = "done"
    /\ UNCHANGED <<k, sessions, transports, clientOf>>

\* await transport.close() returns for the k-th transport
CloseReturns ==
    /\ pc = "cleanup"
    /\ k <= Len(held)
    /\ closeCalls' = [closeCalls EXCEPT ![held[k]] = @ + 1]
    /\ k' = k + 1
    /\ UNCHANGED <<config, openServers, pc, i, sessions, transports, clientOf, opened, released,
                   attempts, connected, connectErrors, pending, exitPath, query,
                   queryRead, printed, rl, held, cleanupCalls, cleanupResult,
                   mainResult>>
    /\ UNCHANGED <<queryVars, nameVars, httpVars>>

\* await transport.close() rejects for the k-th transport
CloseThrows ==
    /\ pc = "cleanup"
    /\ k <= Len(held)
    /\ closeCalls' = [closeCalls EXCEPT ![held[k]] = @ + 1]
    /\ CloseRejected
    /\ UNCHANGED <<config, openServers, i, opened, released, attempts, connected,
                   connectErrors, exitPath, query, queryRead, printed, rl, held,
                   cleanupCalls>>
    /\ UNCHANGED <<queryVars, nameVars, httpVars>>

\* the loop is over: transports.clear(); sessions.clear(); main settles
CleanupReturns ==
    /\ pc = "cleanup"
    /\ k > Len(held)
    /\ transports' = <<>>
    /\ sessions' = <<>>
    /\ clientOf' = [n \in Range(ConfigNames) |-> 0]
    /\ cleanupResult' = "returned"
    /\ mainResult' = IF pending = "none" THEN "resolved" ELSE "rejected"
    /\ pc' = "done"
    /\ UNCHANGED <<config, openServers, i, opened, released, closeCalls, attempts,
                   connected, connectErrors, pending, exitPath, query, queryRead,
                   printed, rl, held, k, cleanupCalls>>
    /\ UNCHANGED <<queryVars, nameVars, httpVars>>

----------------------------------------------------------------------------

Next ==
    \/ MainStart
    \/ ConnectFails
    \/ ConnectSucceeds
    \/ NoActiveSessions
    \/ EnterChatLoop
    \/ ReadQuery
    \/ ReadSentinel
    \/ AskThrows
    \/ ProcessQueryReturns
    \/ ProcessQueryThrows
    \/ MainFinally
    \/ CloseReturns
    \/ CloseThrows
    \/ CleanupReturns

Spec == Init /\ [][Next]_vars

\* every awaited call returns or throws: the program always takes its next step
FairSpec == Spec /\ WF_vars(Next)

\* a config array whose second entry repeats the name of the first (nothing
\* in the program checks config for repeated names)
DuplicateConfigs ==
    {c \in [1..NumProviders -> [name : Range(ConfigNames), isOpen : BOOLEAN, valid : BOOLEAN]] :
        /\ c[1].name = ConfigNames[1]
        /\ c[2].name = ConfigNames[1]
        /\ c[3].name = ConfigNames[3]}

DuplicateInit ==
    /\ config \in DuplicateConfigs
    /\ LifeStart
    /\ QueryIdle
    /\ HttpIdle
    /\ NameIdle

\* the run of main() with such a config
DuplicateSpec == DuplicateInit /\ [][Next]_vars

----------------------------------------------------------------------------
(* Shutdown *)

\* number of times the transport of serverName was closed, by cleanup or by
\* the client library
TimesClosed(serverName) ==
    closeCalls[serverName] + (IF serverName \in released THEN 1 ELSE 0)

\* C1: when shutdown has finished, every transport that was opened during
\* the run has been closed exactly once.
C1_EveryOpenedClosedOnce ==
    pc = "done" => \A n \in opened : TimesClosed(n) = 1

\* C2: cleanup attempts the close of every transport of the registry, also
\* after the close of an earlier one failed, and leaves the registry empty.
C2_CloseAllCollectsFailures ==
    pc = "done" =>
        /\ \A x \in DOMAIN held : closeCalls[held[x]] >= 1
        /\ sessions = <<>>
        /\ transports = <<>>

\* C3: a close failure during cleanup is never thrown out of cleanup, and so
\* never out of main.
C3_ShutdownNeverRaises ==
    /\ cleanupResult # "threw"
    /\ pending # "close"

\* C4: on every exit path of the run (sentinel, no server connected,
\* exception out of the chat loop) cleanup is eventually invoked.
C4_CleanupOnEveryExit ==
    (exitPath \in {"sentinel", "noServers", "exception"}) ~> (cleanupCalls = 1)

\* the run left the chat loop by an exception with two transports in the
\* registry, and cleanup was invoked once and has ended
C4_Witness ==
    /\ pc = "done"
    /\ exitPath = "exception"
    /\ cleanupCalls = 1
    /\ Len(held) >= 2

----------------------------------------------------------------------------
(* Connecting *)

\* C5: every enabled server is passed to connectToServer, in configuration
\* order, whatever the earlier attempts did; no connection error leaves the
\* loop.
C5_ConnectAllIsolatesFailures ==
    /\ pc # "main" => openServers = getOpenServers
    /\ pc = "connect" => attempts = SubSeq(openServers, 1, i - 1)
    /\ pc \notin {"main", "connect"} => attempts = openServers
    /\ pending # "connect"

\* a server was attempted, and connected, after an earlier one had failed
C5_Witness ==
    \E x, y \in DOMAIN attempts :
        /\ x < y
        /\ attempts[x] \in connectErrors
        /\ attempts[y] \in connected

\* C6: from the end of the connection loop until teardown, a server has a
\* session in the registry iff its connectToServer call succeeded; the
\* registry has as many sessions as there were successful connections.
C6_SessionIffConnected ==
    pc \in {"connect", "ask", "query"} =>
        /\ Range(sessions) = connected
        /\ Len(sessions) = Cardinality(connected)

\* C7: when no server connected successfully, the run fails with the
\* no-server error and never enters the chat loop: no query is read.
C7_NoProviderNoConversation ==
    (connected = {} /\ pc \notin {"main", "connect"}) =>
        /\ exitPath = "noServers"
        /\ pending \in {"noServers", "close"}
        /\ rl = "none"
        /\ ~queryRead

----------------------------------------------------------------------------
(* Qualification and resolution of names *)

\* longest provider name and local name drawn
MaxNameLen == 2

Alphabet == {"a", "b", "_"}

Names == UNION {[1..m -> Alphabet] : m \in 0..MaxNameLen}

NoSep(s) == SepIndex(s, 1) = 0

\* the configuration as the repository ships it is not what these steps
\* read; every server is taken as enabled and usable
AllOpenConfig ==
    [x \in 1..NumProviders |-> [name |-> ConfigNames[x], isOpen |-> TRUE, valid |-> TRUE]]

NameInit ==
    /\ config = AllOpenConfig
    /\ LifeStart
    /\ QueryIdle
    /\ HttpIdle
    /\ np \in Names
    /\ nc \in Names
    /\ nq = <<>>
    /\ nr = [serverName |-> <<>>, toolName |-> <<>>]
    /\ npc = "input"

\* the catalog entry's name is built: name: `${serverName}__${tool.name}`
QualifyName ==
    /\ npc = "input"
    /\ nq' = Qualify(np, nc)
    /\ npc' = "qualified"
    /\ UNCHANGED <<np, nc, nr>>
    /\ UNCHANGED <<lifeVars, queryVars, httpVars>>

\* the dispatch step splits the name of the tool call
ResolveName ==
    /\ npc = "qualified"
    /\ nr' = Resolve(nq)
    /\ npc' = "resolved"
    /\ UNCHANGED <<np, nc, nq>>
    /\ UNCHANGED <<lifeVars, queryVars, httpVars>>

NameNext == QualifyName \/ ResolveName

NameSpec == NameInit /\ [][NameNext]_vars

\* C8 as stated: for every provider name p and local name c without "__",
\* resolving p + "__" + c yields (p, c).
C8_RoundTripAsStated ==
    (npc = "resolved" /\ NoSep(np) /\ NoSep(nc)) =>
        nr = [serverName |-> np, toolName |-> nc]

\* C8, amended: for every provider name p and local name c without "__",
\* with p not ending in "_", resolving p + "__" + c yields (p, c).
C8_RoundTrip ==
    (npc = "resolved" /\ NoSep(np) /\ NoSep(nc)
        /\ (np = <<>> \/ np[Len(np)] # "_")) =>
        nr = [serverName |-> np, toolName |-> nc]

\* a name was resolved back to its provider and a local name that starts
\* with an underscore
C8_Witness ==
    /\ npc = "resolved"
    /\ NoSep(np) /\ NoSep(nc)
    /\ np # <<>> /\ np[Len(np)] # "_"
    /\ nc # <<>> /\ nc[1] = "_"
    /\ nr = [serverName |-> np, toolName |-> nc]

----------------------------------------------------------------------------
(* processQuery *)

\* most tools one server reports
MaxTools == 1

\* most tool calls in one completion
MaxCalls == 2

\* local tool names a server may report
ToolNames == {<<"t">>, <<"_", "t">>}

\* tool lists a server may report: local names are unique within a server
ToolLists ==
    {l \in UNION {[1..m -> ToolNames] : m \in 0..MaxTools} :
        \A x, y \in DOMAIN l : x # y => l[x] # l[y]}

\* function names the model may put in a tool call: the qualified name of
\* tool "t" of each configured server (connected or not), and a name
\* without separator
CallNames ==
    {Qualify(ConfigNames[x], <<"t">>) : x \in 1..NumProviders} \cup {<<"t">>}

\* message.tool_calls: each call carries its id and its function name
CallSeqs ==
    UNION {{[x \in 1..m |-> [id |-> x, name |-> f[x]]] : f \in [1..m -> CallNames]} :
              m \in 0..MaxCalls}

\* lines that are not the sentinel, as chatLoop passes them to processQuery
Queries == {Trim(l) : l \in {m \in Lines : ~IsSentinel(Trim(m))}}

\* the state in which chatLoop calls processQuery: the enabled servers of the
\* configuration are registered, a query has been read
QueryInit ==
    /\ config \in {c \in Configs : \A x \in 1..NumProviders : c[x].valid}
    /\ SelectNames(config) # <<>>
    /\ openServers = SelectNames(config)
    /\ pc = "query"
    /\ i = Len(openServers) + 1
    /\ sessions = openServers
    /\ transports = openServers
    /\ clientOf = [n \in Range(ConfigNames) |->
                      IF n \in Range(openServers)
                      THEN CHOOSE x \in DOMAIN openServers : openServers[x] = n
                      ELSE 0]
    /\ opened = Range(openServers)
    /\ released = {}
    /\ closeCalls = [n \in Range(ConfigNames) |-> 0]
    /\ attempts = openServers
    /\ connected = Range(openServers)
    /\ connectErrors = {}
    /\ pending = "none"
    /\ exitPath = "none"
    /\ query \in Queries
    /\ queryRead = TRUE
    /\ printed = "none"
    /\ rl = "open"
    /\ held = <<>>
    /\ k = 1
    /\ cleanupCalls = 0
    /\ cleanupResult = "none"
    /\ mainResult = "running"
    /\ QueryIdle
    /\ HttpIdle
    /\ NameIdle

\* throw out of processQuery
Throw(where) ==
    /\ qpc' = "thrown"
    /\ thrownAt' = where

\* tools.map(...): the entries one server adds to the catalog
QualifyAll(serverName, tools) ==
    [x \in DOMAIN tools |-> Qualify(serverName, tools[x])]

\* processQuery is entered: the guard on sessions.size, then messages is
\* seeded with the user's query
QueryStart ==
    /\ pc = "query"
    /\ qpc = "idle"
    /\ IF Len(sessions) = 0
       THEN /\ Throw("guard")
            /\ UNCHANGED messages
       ELSE /\ messages' = <<[role |-> "user", id |-> 0]>>
            /\ qpc' = "catalog"
            /\ UNCHANGED thrownAt
    /\ UNCHANGED <<availableTools, listed, toolCalls, tc, finalText, invoked, modelCalls>>
    /\ UNCHANGED <<inFlight, nextHasCalls, sent, lifeVars, nameVars, httpVars>>

\* for (const [serverName, session] of this.sessions): listTools returns
ListTools ==
    /\ qpc = "catalog"
    /\ Len(listed) < Len(sessions)
    /\ \E tools \in ToolLists :
          /\ listed' = Append(listed, tools)
          /\ availableTools' =
                availableTools \o QualifyAll(sessions[Len(listed) + 1], tools)
    /\ UNCHANGED <<qpc, messages, toolCalls, tc, finalText, invoked, modelCalls, thrownAt>>
    /\ UNCHANGED <<inFlight, nextHasCalls, sent, lifeVars, nameVars, httpVars>>

\* session.listTools() rejects
ListToolsThrows ==
    /\ qpc = "catalog"
    /\ Len(listed) < Len(sessions)
    /\ Throw("listTools")
    /\ UNCHANGED <<messages, availableTools, listed, toolCalls, tc, finalText, invoked,
                   modelCalls>>
    /\ UNCHANGED <<inFlight, nextHasCalls, sent, lifeVars, nameVars, httpVars>>

\* the first completion returns (no n is passed, so choices holds the one
\* choice): optional content, tool calls
ModelTurn ==
    /\ qpc = "catalog"
    /\ Len(listed) = Len(sessions)
    /\ modelCalls' = modelCalls + 1
    /\ sent' = messages
    /\ \E content \in BOOLEAN, calls \in CallSeqs :
          /\ finalText' = IF content THEN <<[kind |-> "content", id |-> 0]>> ELSE <<>>
          /\ toolCalls' = calls
    /\ tc' = 1
    /\ qpc' = "dispatch"
    /\ UNCHANGED <<messages, availableTools, listed, invoked, thrownAt>>
    /\ UNCHANGED <<inFlight, nextHasCalls, lifeVars, nameVars, httpVars>>

\* the first completion rejects
ModelTurnThrows ==
    /\ qpc = "catalog"
    /\ Len(listed) = Len(sessions)
    /\ modelCalls' = modelCalls + 1
    /\ sent' = messages
    /\ Throw("model")
    /\ UNCHANGED <<messages, availableTools, listed, toolCalls, tc, finalText, invoked>>
    /\ UNCHANGED <<inFlight, nextHasCalls, lifeVars, nameVars, httpVars>>

\* this.sessions.get(serverName) of the call being dispatched is defined
Resolvable(call) == Resolve(call.name).serverName \in Range(sessions)

\* an unresolvable call that throws instead of continuing
UnresolvedCallThrows ==
    /\ finalText' = Append(finalText, [kind |-> "error", id |-> toolCalls[tc].id])
    /\ tc' = tc
    /\ Throw("resolve")

\* if (!session) { finalText.push(`[Error: Server ... not found]`); continue; }
UnresolvedCall ==
    /\ finalText' = Append(finalText, [kind |-> "error", id |-> toolCalls[tc].id])
    /\ tc' = tc + 1
    /\ UNCHANGED <<qpc, thrownAt>>

\* a tool call whose server name has no session
DispatchUnresolved ==
    /\ qpc = "dispatch"
    /\ tc <= Len(toolCalls)
    /\ ~Resolvable(toolCalls[tc])
    /\ UnresolvedCall
    /\ UNCHANGED <<messages, availableTools, listed, toolCalls, invoked, modelCalls>>
    /\ UNCHANGED <<inFlight, nextHasCalls, sent, lifeVars, nameVars, httpVars>>

\* JSON.parse(toolCall.function.arguments) throws
DispatchParseThrows ==
    /\ qpc = "dispatch"
    /\ tc <= Len(toolCalls)
    /\ Resolvable(toolCalls[tc])
    /\ Throw("parse")
    /\ UNCHANGED <<messages, availableTools, listed, toolCalls, tc, finalText, invoked,
                   modelCalls>>
    /\ UNCHANGED <<inFlight, nextHasCalls, sent, lifeVars, nameVars, httpVars>>

\* the callTool request of the call being dispatched
Invocation ==
    [id     |-> toolCalls[tc].id,
     server |-> Resolve(toolCalls[tc].name).serverName,
     tool   |-> Resolve(toolCalls[tc].name).toolName]

\* session.callTool(...) called without await: the request is sent and the
\* loop goes on to the next tool call
CallToolNoAwait ==
    /\ invoked' = Append(invoked, Invocation)
    /\ inFlight' = inFlight \cup {toolCalls[tc].id}
    /\ tc' = tc + 1
    /\ UNCHANGED qpc

\* await session.callTool(...): the request is sent and processQuery waits
\* for its result
CallTool ==
    /\ invoked' = Append(invoked, Invocation)
    /\ inFlight' = inFlight \cup {toolCalls[tc].id}
    /\ qpc' = "calling"
    /\ UNCHANGED tc

\* the session is found and the arguments parse: callTool is called
DispatchCallTool ==
    /\ qpc = "dispatch"
    /\ tc <= Len(toolCalls)
    /\ Resolvable(toolCalls[tc])
    /\ CallTool
    /\ UNCHANGED <<messages, availableTools, listed, toolCalls, finalText, modelCalls,
                   thrownAt>>
    /\ UNCHANGED <<nextHasCalls, sent, lifeVars, nameVars, httpVars>>

\* a messages array that is built anew for each tool result: the query, the
\* call and its result
PushTurnsFresh ==
    messages' = <<messages[1], [role |-> "assistant", id |-> toolCalls[tc].id],
                               [role |-> "tool", id |-> toolCalls[tc].id]>>

\* messages.push({role: "assistant", ..., tool_calls: [toolCall]});
\* messages.push({role: "tool", tool_call_id: toolCall.id, ...})
PushTurns ==
    messages' = messages \o <<[role |-> "assistant", id |-> toolCalls[tc].id],
                              [role |-> "tool", id |-> toolCalls[tc].id]>>

\* session.callTool returns: two lines of output, the assistant turn and the
\* tool turn are appended
DispatchInvoke ==
    /\ qpc = "calling"
    /\ inFlight' = inFlight \ {toolCalls[tc].id}
    /\ finalText' = finalText \o <<[kind |-> "calling", id |-> toolCalls[tc].id],
                                   [kind |-> "result", id |-> toolCalls[tc].id]>>
    /\ PushTurns
    /\ qpc' = "followup"
    /\ UNCHANGED <<availableTools, listed, toolCalls, tc, invoked, modelCalls, thrownAt>>
    /\ UNCHANGED <<nextHasCalls, sent, lifeVars, nameVars, httpVars>>

\* session.callTool rejects
DispatchInvokeThrows ==
    /\ qpc = "calling"
    /\ inFlight' = inFlight \ {toolCalls[tc].id}
    /\ Throw("callTool")
    /\ UNCHANGED <<messages, availableTools, listed, toolCalls, tc, finalText, invoked,
                   modelCalls>>
    /\ UNCHANGED <<nextHasCalls, sent, lifeVars, nameVars, httpVars>>

\* nextCompletion returns: its content, if any, is appended to the output and
\* nothing else of it is read (its message may carry tool_calls); the loop
\* goes on with the next tool call
FollowUp ==
    /\ qpc = "followup"
    /\ modelCalls' = modelCalls + 1
    /\ sent' = messages
    /\ \E content \in BOOLEAN :
          finalText' = IF content
                       THEN Append(finalText, [kind |-> "content", id |-> toolCalls[tc].id])
                       ELSE finalText
    /\ nextHasCalls' \in BOOLEAN
    /\ tc' = tc + 1
    /\ qpc' = "dispatch"
    /\ UNCHANGED <<messages, availableTools, listed, toolCalls, invoked, thrownAt>>
    /\ UNCHANGED <<inFlight, lifeVars, nameVars, httpVars>>

\* nextCompletion rejects
FollowUpThrows ==
    /\ qpc = "followup"
    /\ modelCalls' = modelCalls + 1
    /\ sent' = messages
    /\ Throw("followup")
    /\ UNCHANGED <<messages, availableTools, listed, toolCalls, tc, finalText, invoked>>
    /\ UNCHANGED <<inFlight, nextHasCalls, lifeVars, nameVars, httpVars>>

\* return finalText.join("\n")
QueryReturn ==
    /\ qpc = "dispatch"
    /\ tc > Len(toolCalls)
    /\ qpc' = "returned"
    /\ UNCHANGED <<messages, availableTools, listed, toolCalls, tc, finalText, invoked,
                   modelCalls, thrownAt>>
    /\ UNCHANGED <<inFlight, nextHasCalls, sent, lifeVars, nameVars, httpVars>>

\* chatLoop receives the end of processQuery: the response is printed, or the
\* error is caught and printed; the while loop goes back to askQuestion
QueryEnds ==
    /\ pc = "query"
    /\ qpc \in {"returned", "thrown"}
    /\ AfterQuery(qpc)
    /\ UNCHANGED <<config, openServers, i, sessions, transports, clientOf, opened, released,
                   closeCalls, attempts, connected, connectErrors, queryRead,
                   cleanupResult, mainResult>>
    /\ UNCHANGED <<queryVars, nameVars, httpVars>>

QueryNext ==
    \/ QueryStart
    \/ ListTools
    \/ ListToolsThrows
    \/ ModelTurn
    \/ ModelTurnThrows
    \/ DispatchUnresolved
    \/ DispatchParseThrows
    \/ DispatchCallTool
    \/ DispatchInvoke
    \/ DispatchInvokeThrows
    \/ FollowUp
    \/ FollowUpThrows
    \/ QueryReturn
    \/ QueryEnds

QuerySpec == QueryInit /\ [][QueryNext]_vars

\* main from its start to the first catalog: the connection loop, chatLoop's
\* first read, and processQuery up to the completion request
StartupNext ==
    \/ MainStart
    \/ ConnectFails
    \/ ConnectSucceeds
    \/ NoActiveSessions
    \/ EnterChatLoop
    \/ ReadQuery
    \/ QueryStart
    \/ ListTools
    \/ ListToolsThrows

StartupSpec == Init /\ [][StartupNext]_vars

----------------------------------------------------------------------------
(* The catalog *)

RECURSIVE SumLen(_)
SumLen(lists) == IF lists = <<>> THEN 0 ELSE Len(Head(lists)) + SumLen(Tail(lists))

\* the qualified names of the first n sessions' tools, session by session
RECURSIVE Flattened(_)
Flattened(n) ==
    IF n = 0 THEN <<>>
    ELSE Flattened(n - 1) \o QualifyAll(sessions[n], listed[n])

\* C9: the catalog sent to the model has as many entries as the connected
\* servers reported tools, in registry order then reported order, and no two
\* entries share a qualified name.
C9_CatalogCompleteUnique ==
    modelCalls >= 1 =>
        /\ Len(availableTools) = SumLen(listed)
        /\ availableTools = Flattened(Len(sessions))
        /\ \A x, y \in DOMAIN availableTools :
              x # y => availableTools[x] # availableTools[y]

----------------------------------------------------------------------------
(* Dispatch *)

\* the x-th tool call of the completion has been dispatched: a resolvable one
\* was passed to callTool, an unresolvable one left exactly one error line
\* and reached no server
Dispatched(x) ==
    IF Resolvable(toolCalls[x])
    THEN \E y \in DOMAIN invoked : invoked[y].id = toolCalls[x].id
    ELSE /\ Cardinality({z \in DOMAIN finalText :
                            finalText[z] = [kind |-> "error", id |-> toolCalls[x].id]}) = 1
         /\ \A y \in DOMAIN invoked : invoked[y].id # toolCalls[x].id

\* C10: a tool call whose name resolves to no registered server contacts no
\* server and never aborts the query: processQuery throws during dispatch
\* only at a resolvable call, every call before the current one has been
\* dispatched, and a query that returns has dispatched all of them.
C10_DispatchIsolation ==
    /\ \A y \in DOMAIN invoked : Resolvable(toolCalls[invoked[y].id])
    /\ thrownAt \notin {"none", "guard", "listTools", "model"} =>
          (tc <= Len(toolCalls) /\ Resolvable(toolCalls[tc]))
    /\ \A x \in DOMAIN toolCalls : x < tc => Dispatched(x)
    /\ qpc = "returned" => tc = Len(toolCalls) + 1

\* a query returned after an unresolvable call was followed by a call that
\* reached its server
C10_Witness ==
    /\ qpc = "returned"
    /\ \E x, y \in DOMAIN toolCalls :
          /\ x < y
          /\ ~Resolvable(toolCalls[x])
          /\ Resolvable(toolCalls[y])
          /\ \E z \in DOMAIN invoked : invoked[z].id = toolCalls[y].id

----------------------------------------------------------------------------
(* A tool call that fails *)

\* C11: a rejection of session.callTool is turned into a line of output and
\* does not end the query: processQuery never throws at callTool, so the
\* calls after the failing one are still dispatched and the query returns.
C11_InvokeErrorDegraded == thrownAt # "callTool"

----------------------------------------------------------------------------
(* The end of the conversation loop *)

\* C12: processQuery returns only at a model response without tool calls:
\* when it returns, every tool call of the first completion has been
\* dispatched and the latest follow-up completion carries no tool calls
\* (they would have been dispatched and the model asked again).
C12_LoopEndsAtCallFreeTurn ==
    qpc = "returned" =>
        /\ \A x \in DOMAIN toolCalls : Dispatched(x)
        /\ ~nextHasCalls

\* the latest model response carries no tool calls: the first completion
\* returned none, or the latest follow-up completion returned none
LatestTurnCallFree ==
    /\ qpc = "dispatch"
    /\ \/ modelCalls = 1 /\ toolCalls = <<>>
       \/ modelCalls >= 2 /\ ~nextHasCalls

\* C13: a model response without tool calls ends the loop: from there on
\* processQuery requests no completion and makes no callTool.
C13_CallFreeTurnEndsLoop ==
    [][LatestTurnCallFree => (modelCalls' = modelCalls /\ invoked' = invoked)]_vars

----------------------------------------------------------------------------
(* Sequential dispatch *)

\* C14: the tool calls of a completion are passed to callTool one at a time
\* and in the order the model returned them: at most one callTool request
\* is unsettled at any time, it is the one of the tool call the loop stands
\* at, and a request is sent only when the one before it has settled.
C14_SequentialDispatch ==
    /\ Cardinality(inFlight) <= 1
    /\ inFlight # {} =>
          /\ qpc = "calling"
          /\ inFlight = {toolCalls[tc].id}
          /\ invoked[Len(invoked)].id = toolCalls[tc].id
    /\ \A x, y \in DOMAIN invoked : x < y => invoked[x].id < invoked[y].id
    /\ \A y \in DOMAIN invoked : invoked[y].id <= tc

\* the second callTool request is unsettled after the first one returned
C14_Witness ==
    /\ Len(invoked) = 2
    /\ inFlight = {invoked[2].id}
    /\ \E z \in DOMAIN finalText : finalText[z] = [kind |-> "result", id |-> invoked[1].id]

----------------------------------------------------------------------------
(* An error of one query *)

\* C15: an error thrown by processQuery ends that query only: chatLoop
\* prints it and stands at the next read with readline open and nothing
\* pending in main; the registry (sessions and transports) is as it was
\* when the query was read, no transport was closed or released and
\* cleanup has not run.
C15_QueryErrorIsolated ==
    /\ (qpc = "thrown" /\ pc # "query") =>
          /\ pc = "ask"
          /\ printed = "error"
          /\ rl = "open"
          /\ pending = "none" /\ exitPath = "none" /\ mainResult = "running"
    /\ qpc # "idle" =>
          /\ sessions = openServers
          /\ transports = openServers
          /\ released = {}
          /\ \A n \in Range(ConfigNames) : closeCalls[n] = 0
          /\ cleanupCalls = 0

\* session.callTool rejected, chatLoop printed the error and reads again
C15_Witness ==
    /\ thrownAt = "callTool"
    /\ pc = "ask"
    /\ printed = "error"
    /\ Len(sessions) = 2

----------------------------------------------------------------------------
(* The isOpen flag *)

EnabledNames == {config[x].name : x \in {y \in 1..NumProviders : config[y].isOpen}}

ConfigIndex(serverName) == CHOOSE x \in 1..NumProviders : config[x].name = serverName

\* C16: connectToServer is called for the configured servers whose isOpen is
\* true and for no other, each once and in the order of the configuration;
\* a server whose flag is false is never connected, never has a session or
\* a transport, and the catalog holds only entries made from the sessions.
C16_OnlyEnabledProviders ==
    /\ \A x \in DOMAIN attempts : attempts[x] \in EnabledNames
    /\ \A x, y \in DOMAIN attempts :
          x < y => ConfigIndex(attempts[x]) < ConfigIndex(attempts[y])
    /\ pc \notin {"main", "connect"} => Range(attempts) = EnabledNames
    /\ (Range(sessions) \cup Range(transports) \cup opened \cup connected) \subseteq EnabledNames
    /\ Len(listed) <= Len(sessions)
    /\ availableTools = Flattened(Len(listed))

\* the second of three servers is switched off, the other two are connected
\* and the catalog of the first query holds the tools of both
C16_Witness ==
    /\ config[1].isOpen /\ ~config[2].isOpen /\ config[3].isOpen
    /\ sessions = <<config[1].name, config[3].name>>
    /\ qpc = "catalog"
    /\ Len(listed) = 2
    /\ Len(availableTools) = 2

----------------------------------------------------------------------------
(* The sentinel *)

\* the word quit in any mix of upper and lower case
IsQuitWord(q) ==
    /\ Len(q) = 4
    /\ q[1] \in {"q", "Q"} /\ q[2] \in {"u", "U"}
    /\ q[3] \in {"i", "I"} /\ q[4] \in {"t", "T"}

\* C17: the line read is trimmed and compared with "quit" without regard to
\* case.  The loop is left through the sentinel exactly on such a line:
\* from then on the run stands in shutdown (no query is processed any
\* more), which it enters with no error pending; a line that is processed
\* as a query is never the sentinel, and when its processing ends the loop
\* stands at the next read.
C17_SentinelEndsSession ==
    /\ [](exitPath = "sentinel" =>
             /\ IsQuitWord(query)
             /\ pc \in {"finally", "cleanup", "done"}
             /\ rl = "closed"
             /\ pc = "finally" => pending = "none")
    /\ [](pc = "query" =>
             /\ ~IsQuitWord(query)
             /\ query \in {Trim(l) : l \in Lines}
             /\ exitPath = "none")
    /\ [][pc = "query" => (pc' = "ask" /\ rl' = "open")]_vars

\* " Quit " was read after a query had been answered, and shutdown is over
C17_Witness ==
    /\ pc = "done"
    /\ exitPath = "sentinel"
    /\ query = <<"Q", "u", "i", "t">>
    /\ printed = "response"

----------------------------------------------------------------------------
(* The follow-up completion *)

\* C18: the model is asked again only when all tool calls of the completion
\* have been dispatched, and exactly once if there was at least one: a
\* follow-up completion is requested only with every tool call dispatched,
\* and a query that returns has requested one completion, plus one if
\* the first completion held tool calls.
C18_OneFollowUpAfterAllDispatches ==
    /\ modelCalls >= 2 => \A x \in DOMAIN toolCalls : Dispatched(x)
    /\ qpc = "returned" =>
          modelCalls = (IF toolCalls = <<>> THEN 1 ELSE 2)

----------------------------------------------------------------------------
(* Resolution of a qualified name *)

\* C19: a qualified name is resolved at the first "__": the server name is
\* the text before it and the tool name is all the text after it, further
\* "__" included.
C19_ResolveAtFirstSeparator ==
    npc = "resolved" =>
        LET at == SepIndex(nq, 1)
        IN  nr = [serverName |-> SubSeq(nq, 1, at - 1),
                  toolName   |-> SubSeq(nq, at + 2, Len(nq))]

----------------------------------------------------------------------------
(* An unresolvable tool call and the conversation *)

\* number of turns of the conversation state that belong to the x-th tool
\* call, whatever their role
TurnsOf(x) == Cardinality({z \in DOMAIN messages : messages[z].id = toolCalls[x].id})

\* C20: every unresolvable tool call that has been dispatched left exactly
\* one turn (its error) in the conversation state, where the next
\* completion request finds it.
C20_UnresolvedBecomesTurn ==
    \A x \in DOMAIN toolCalls :
        (x < tc /\ ~Resolvable(toolCalls[x])) => TurnsOf(x) = 1

----------------------------------------------------------------------------
(* The conversation state *)

IsPrefix(s, t) == Len(s) <= Len(t) /\ SubSeq(t, 1, Len(s)) = s

\* number of callTool requests that have returned
Returned ==
    Len(invoked) - (IF inFlight # {} \/ thrownAt = "callTool" THEN 1 ELSE 0)

\* C21: the conversation state of a query starts as the one user turn and
\* only grows: it is the user turn followed, for each callTool that
\* returned and in that order, by an assistant turn and then a tool turn
\* with the id of that call; the first completion request is sent the user
\* turn alone, and each later request is sent an extension of what the
\* request before it was sent.
C21_ConversationGrows ==
    /\ [](messages # <<>> =>
             /\ messages[1] = [role |-> "user", id |-> 0]
             /\ Len(messages) = 1 + 2 * Returned
             /\ \A j \in 1..Returned :
                   /\ messages[2 * j] = [role |-> "assistant", id |-> invoked[j].id]
                   /\ messages[2 * j + 1] = [role |-> "tool", id |-> invoked[j].id]
             /\ IsPrefix(sent, messages))
    /\ [](modelCalls = 1 => sent = <<[role |-> "user", id |-> 0]>>)
    /\ [][IsPrefix(messages, messages')]_vars
    /\ [][sent' # sent => (sent' = messages /\ IsPrefix(sent, sent'))]_vars

\* the third completion request of a query was sent the user turn and the
\* turns of two tool calls
C21_Witness ==
    /\ modelCalls = 3
    /\ Len(sent) = 5
    /\ sent[2].id # sent[4].id
    /\ qpc = "returned"

----------------------------------------------------------------------------
(* A name registered twice *)

\* C22: a session registered under a name is never replaced: while a name
\* stays registered, the Client and the transport held under it are those
\* of the connectToServer call that registered it (a later call for the
\* same name fails with a duplicate error and changes nothing).
C22_NoSilentReplace ==
    [][\A n \in Range(ConfigNames) :
          (clientOf[n] # 0 /\ clientOf'[n] # 0) => clientOf'[n] = clientOf[n]]_vars

----------------------------------------------------------------------------
(* The HTTP MCP server: POST / *)

\* values of body.method: the methods the server knows, another string, a
\* number, and no method at all
MethodValues ==
    {JsString(m) : m \in {"initialize", "tools/list", "tools/call", "resources/list",
                          "prompts/list", "ping"}}
        \cup {JsNumber("1"), JsUndefined}

\* values of body.id
IdValues ==
    {JsNumber("1"), JsNumber("0"), JsString("x"), JsString(""), JsNull, JsUndefined}

\* values of body.params: absent, null, a string, and objects whose name is
\* one of the two tools or something else
ParamValues ==
    {JsUndefined, JsNull, JsString("x"),
     JsObject("get-alerts"), JsObject("get-forecast"), JsObject("other")}

Bodies == [method : MethodValues, id : IdValues, params : ParamValues]

\* a value that `||` passes over
Falsy(v) == v \in {JsUndefined, JsNull, JsString(""), JsNumber("0")}

\* body?.id || null
OrNull(v) == IF Falsy(v) THEN JsNull ELSE v

\* the `name` read from params by the destructuring pattern
NameOf(params) ==
    IF params.type = "object" /\ params # JsNull THEN params.val ELSE "undefined"

\* { jsonrpc: "2.0", id, result: ... }
ResultResponse(id) == [id |-> id, result |-> TRUE, error |-> FALSE]

\* { jsonrpc: "2.0", id, error: ... }
ErrorResponse(id) == [id |-> id, result |-> FALSE, error |-> TRUE]

\* app.post("/") is entered with the parsed body
HttpInit ==
    /\ config = AllOpenConfig
    /\ LifeStart
    /\ NameIdle
    /\ qpc = "idle" /\ messages = <<>> /\ availableTools = <<>> /\ listed = <<>>
    /\ toolCalls = <<>> /\ tc = 1 /\ finalText = <<>> /\ invoked = <<>>
    /\ inFlight = {} /\ modelCalls = 0 /\ thrownAt = "none"
    /\ nextHasCalls = FALSE /\ sent = <<>>
    /\ body \in Bodies
    /\ hpc = "post"
    /\ responses = <<>>

\* res.json(responseData)
Respond(response) ==
    /\ responses' = Append(responses, response)
    /\ hpc' = "responded"
    /\ UNCHANGED body

\* the negation of the first test of processJsonRpcRequest (body is an object)
ValidRequest == body.method.type = "string" /\ body.id.type # "undefined"

InvalidRequest ==
    /\ hpc = "post"
    /\ ~ValidRequest
    /\ Respond(ErrorResponse(OrNull(body.id)))
    /\ UNCHANGED <<lifeVars, queryVars, nameVars>>

handleInitialize ==
    /\ hpc = "post"
    /\ ValidRequest
    /\ body.method = JsString("initialize")
    /\ Respond(ResultResponse(body.id))
    /\ UNCHANGED <<lifeVars, queryVars, nameVars>>

handleToolsList ==
    /\ hpc = "post"
    /\ ValidRequest
    /\ body.method = JsString("tools/list")
    /\ Respond(ResultResponse(body.id))
    /\ UNCHANGED <<lifeVars, queryVars, nameVars>>

handleResourcesOrPromptsList ==
    /\ hpc = "post"
    /\ ValidRequest
    /\ body.method \in {JsString("resources/list"), JsString("prompts/list")}
    /\ Respond(ResultResponse(body.id))
    /\ UNCHANGED <<lifeVars, queryVars, nameVars>>

handleUnknownMethod ==
    /\ hpc = "post"
    /\ ValidRequest
    /\ body.method \notin {JsString(m) : m \in {"initialize", "tools/list", "tools/call",
                                                 "resources/list", "prompts/list"}}
    /\ Respond(ErrorResponse(body.id))
    /\ UNCHANGED <<lifeVars, queryVars, nameVars>>

\* handleToolCall is entered: const { name, arguments: args } = params, ahead
\* of the try block, throws a TypeError when params is undefined or null
ToolCallDestructure ==
    /\ hpc = "post"
    /\ ValidRequest
    /\ body.method = JsString("tools/call")
    /\ hpc' = IF body.params \in {JsUndefined, JsNull} THEN "rejected" ELSE "tool"
    /\ UNCHANGED <<body, responses>>
    /\ UNCHANGED <<lifeVars, queryVars, nameVars>>

\* the try block of handleToolCall returns: for the two tools a result (the
\* text, or the text of a failed retrieval) or, from the catch, an error
\* (invalid arguments, internal error); for any other name an error
handleToolCall ==
    /\ hpc = "tool"
    /\ IF NameOf(body.params) \in {"get-alerts", "get-forecast"}
       THEN \E ok \in BOOLEAN :
               Respond(IF ok THEN ResultResponse(body.id) ELSE ErrorResponse(body.id))
       ELSE Respond(ErrorResponse(body.id))
    /\ UNCHANGED <<lifeVars, queryVars, nameVars>>

\* the promise of the async route handler rejects and the router does not
\* look at it (Express 4): no response is written for the request
RejectionDropped ==
    /\ hpc = "rejected"
    /\ hpc' = "hung"
    /\ UNCHANGED <<body, responses>>
    /\ UNCHANGED <<lifeVars, queryVars, nameVars>>

\* the router passes the rejection to the error middleware (Express 5):
\* res.status(500).json({ id: req.body?.id || null, error: ... })
RejectionToErrorHandler ==
    /\ hpc = "rejected"
    /\ Respond(ErrorResponse(OrNull(body.id)))
    /\ UNCHANGED <<lifeVars, queryVars, nameVars>>

HttpNext ==
    \/ InvalidRequest
    \/ handleInitialize
    \/ handleToolsList
    \/ handleResourcesOrPromptsList
    \/ handleUnknownMethod
    \/ ToolCallDestructure
    \/ handleToolCall
    \/ RejectionDropped
    \/ RejectionToErrorHandler

HttpSpec == HttpInit /\ [][HttpNext]_vars

\* C23: a request body with a string method and a defined id, whatever its
\* method and its params, gets exactly one response, which carries the id
\* of the request and exactly one of result and error; its handling never
\* ends without a response.
C23_EveryRequestAnswered ==
    (body.method.type = "string" /\ body.id # JsUndefined) =>
        /\ hpc \notin {"rejected", "hung"}
        /\ Len(responses) <= 1
        /\ hpc = "responded" =>
              /\ Len(responses) = 1
              /\ responses[1].id = body.id
              /\ responses[1].result # responses[1].error

====
